---- MODULE Spec2Model ----
(***************************************************************************)
(* TechLeadAgent: src/core/config.py (credential check at import) and      *)
(* src/core/agent.py (persona formatter, agent configuration, the driver    *)
(* main()).  The Session Store and the Conversation Runner are external     *)
(* collaborators: their answers (created / raised, handle / None, the       *)
(* events of a stream, the state they write) are nondeterministic choices.  *)
(*                                                                          *)
(* Python values: a str is a TLA+ string; an Optional value is <<>> for     *)
(* None and <<v>> for v; a dict is a function whose DOMAIN is its key set.  *)
(***************************************************************************)
EXTENDS Naturals, Sequences, FiniteSets, TLC

\* Longest event stream of one turn that the model explores.
MaxEvents == 2

None == <<>>
Some(v) == <<v>>

\* Python truthiness of an Optional[str]: None and "" are falsy.
Truthy(opt) == opt # None /\ opt[1] # ""

\* Variant: only None is falsy.
RejectsOnlyNone(opt) == opt = None

\* `not x` for an Optional[str]
Falsy(opt) == ~Truthy(opt)

\* dict.get(key, default)
Get(d, key, default) == IF key \in DOMAIN d THEN d[key] ELSE default

\* dict.get(key): None when the key is missing
GetOpt(d, key) == IF key \in DOMAIN d THEN Some(d[key]) ELSE None

\* dict with d[key] = value
Put(d, key, value) == [k \in DOMAIN d \cup {key} |-> IF k = key THEN value ELSE d[k]]

\* dict without key
Del(d, key) == [k \in DOMAIN d \ {key} |-> d[k]]

\* s[:n]
Slice(s, n) == SubSeq(s, 1, IF Len(s) < n THEN Len(s) ELSE n)


(***************************************************************************)
(* config.py                                                               *)
(***************************************************************************)
MODEL_NAME == "gemini-2.5-flash"

(***************************************************************************)
(* agent.py: the persona formatter                                         *)
(***************************************************************************)
\* The f-string of dynamic_persona_provider for the two looked-up values.
PersonaText(use_role, current_topic) ==
    "You are a strict Senior Tech Lead. "
    \o "You are currently mentoring a user with the rank of '" \o use_role \o "'. "
    \o "The current discussion topic is locked to: '" \o current_topic \o "'. "
    \o "If the user asks about anything else, politely refuse and steer back to "
    \o current_topic \o ". "
    \o "Keep answers concise and technical."

\* Variant: the role is looked up under "role", a key the state never has.
dynamic_persona_provider_wrong_key(state) ==
    LET use_role == Get(state, "role", "Intern")
        current_topic == Get(state, "current_topic", "General Chat")
    IN  PersonaText(use_role, current_topic)

\* dynamic_persona_provider(context), as a function of context.state
dynamic_persona_provider(state) ==
    LET use_role == Get(state, "user:role", "Intern")
        current_topic == Get(state, "current_topic", "General Chat")
    IN  PersonaText(use_role, current_topic)

(***************************************************************************)
(* agent.py: the agent configuration and the literals of main()            *)
(***************************************************************************)
initial_state ==
    [k \in {"user:role", "current_topic"} |->
        IF k = "user:role" THEN "Junior Developer" ELSE "Memory Management"]

\* str(initial_state) as line 61 prints it
initial_state_repr ==
    "{'user:role': 'Junior Developer', 'current_topic': 'Memory Management'}"

\* Variant: the instruction is the string the provider returned for the
\* initial state when the agent was built.
root_agent_static ==
    [name |-> "TechLeadAgent",
     model |-> MODEL_NAME,
     instruction |-> [callable |-> FALSE, text |-> dynamic_persona_provider(initial_state)],
     output_key |-> "last_mentor_advice"]

\* instruction is the callable itself, not a string it returned
root_agent ==
    [name |-> "TechLeadAgent",
     model |-> MODEL_NAME,
     instruction |-> [callable |-> TRUE, text |-> ""],
     output_key |-> "last_mentor_advice"]

\* The instruction the runner uses for a turn of `agent` on the session state
\* `state`: a callable instruction is called on the state of that moment, a
\* string instruction is used as it is.
ResolveInstruction(agent, state) ==
    IF agent.instruction.callable
    THEN dynamic_persona_provider(state)
    ELSE agent.instruction.text

app_name == "EnterpriseApp"
user_id == "dev_001"
session_id == "session_alpha"

prompts == << "Hi, can you help me with Python?",
              "Okay, tell me about Stack and Heap." >>

\* str(saved_advice)[:50]
PreviewLen == 50

(***************************************************************************)
(* What the collaborators may answer                                       *)
(***************************************************************************)
\* GOOGLE_API_KEY in the process environment or in the .env file
KeyValues == { None, Some(""), Some("AIza-key") }

Part(text) == [text |-> text]
Event(content) == [content |-> content]
Content(parts) == Some([parts |-> parts])

\* Events a stream may yield: no content, content without parts, an empty
\* part list, parts without text, with empty text, with text.
Events ==
    { Event(None),
      Event(Content(None)),
      Event(Content(Some(<< >>))),
      Event(Content(Some(<< Part(None) >>))),
      Event(Content(Some(<< Part(Some("")) >>))),
      Event(Content(Some(<< Part(Some("Stack")) >>))),
      Event(Content(Some(<< Part(Some("Use ")), Part(None), Part(Some("")),
                            Part(Some("heap.")) >>))) }

\* Final texts the runner may store under the output key (None: the runner
\* stores nothing this turn).  The second is PreviewLen characters long,
\* the third longer.
Advices ==
    { None,
      Some(""),
      Some("Python frees objects by reference counting."),
      Some("The stack holds frames; the heap holds the objects"),
      Some("The stack holds call frames and the heap holds every object you allocate.") }

\* Other changes a turn may make to the session state.
StateDeltas == { "none", "set_topic", "del_topic", "set_role", "del_role" }

ApplyDelta(state, delta) ==
    CASE delta = "none" -> state
      [] delta = "set_topic" -> Put(state, "current_topic", "Concurrency")
      [] delta = "del_topic" -> Del(state, "current_topic")
      [] delta = "set_role" -> Put(state, "user:role", "Senior Developer")
      [] delta = "del_role" -> Del(state, "user:role")

(***************************************************************************)
(* State                                                                   *)
(***************************************************************************)
VARIABLES
    pc,              \* where the process is
    environ,         \* os.environ.get("GOOGLE_API_KEY")
    GOOGLE_API_KEY,  \* config.GOOGLE_API_KEY
    exc,             \* the exception that ended the process, "" when none
    session,         \* the store's entry for (app_name, user_id, session_id): None or Some(state)
    createCalls,     \* calls of create_session
    getCalls,        \* calls of get_session
    submitted,       \* prompts handed to runner.run_async, in order
    inFlight,        \* event streams opened and not yet exhausted
    completed,       \* event streams consumed to exhaustion
    received,        \* events of the current stream received so far
    snapshots,       \* session state at the start of each turn
    instructions,    \* instruction the runner used in each turn
    stdout,          \* the print calls, in order
    log,             \* the logger calls, in order
    updated_session  \* main's updated_session: None or Some(state)

vars == << pc, environ, GOOGLE_API_KEY, exc, session, createCalls, getCalls,
           submitted, inFlight, completed, received, snapshots, instructions,
           stdout, log, updated_session >>

driverVars == << session, createCalls, getCalls, submitted, inFlight, completed,
                 received, snapshots, instructions, stdout, log, updated_session >>

InitDriver ==
    /\ exc = ""
    /\ session = None
    /\ createCalls = 0
    /\ getCalls = 0
    /\ submitted = << >>
    /\ inFlight = 0
    /\ completed = 0
    /\ received = << >>
    /\ snapshots = << >>
    /\ instructions = << >>
    /\ stdout = << >>
    /\ log = << >>
    /\ updated_session = None

Init ==
    /\ pc = "load_dotenv"
    /\ environ \in KeyValues
    /\ GOOGLE_API_KEY = None
    /\ InitDriver

(***************************************************************************)
(* config.py, run by agent.py's import of MODEL_NAME                       *)
(***************************************************************************)
\* load_dotenv(): a variable the environment lacks is set from the .env file,
\* which may give it any value or not have it; a variable the environment
\* has is kept.
LoadDotenv ==
    /\ pc = "load_dotenv"
    /\ environ' \in (IF environ = None THEN KeyValues ELSE { environ })
    /\ pc' = "getenv"
    /\ UNCHANGED << GOOGLE_API_KEY, exc, driverVars >>

\* GOOGLE_API_KEY = os.getenv(...); if not GOOGLE_API_KEY: raise ValueError
CheckKey ==
    /\ pc = "getenv"
    /\ GOOGLE_API_KEY' = environ
    /\ IF Falsy(environ)
       THEN pc' = "config_error" /\ exc' = "ValueError"
       ELSE pc' = "create_session" /\ exc' = exc
    /\ UNCHANGED << environ, driverVars >>


(***************************************************************************)
(* agent.py: main()                                                        *)
(***************************************************************************)
LogRecord(level, msg) == [level |-> level, msg |-> msg]

\* Lines 44-69 when create_session returns: the banner is printed, the store
\* holds the session with the literal initial state, the success is logged.
CreateSessionReturned ==
    /\ pc = "create_session"
    /\ stdout' = Append(stdout, "--- INITIALIZING SESSION: " \o initial_state_repr \o " ---\n")
    /\ createCalls' = createCalls + 1
    /\ session' = Some(initial_state)
    /\ log' = Append(log, LogRecord("INFO",
                 "Session created successfully: " \o session_id \o " for user " \o user_id))
    /\ pc' = "next_prompt"
    /\ UNCHANGED << environ, GOOGLE_API_KEY, exc, getCalls, submitted, inFlight,
                    completed, received, snapshots, instructions, updated_session >>

\* Variant: a failed creation is tried again.
CreateSessionRetried ==
    /\ pc = "create_session"
    /\ createCalls' = createCalls + 1
    /\ exc' = "create_session"
    /\ pc' = "create_session"
    /\ UNCHANGED << environ, GOOGLE_API_KEY, session, getCalls, submitted, inFlight,
                    completed, received, snapshots, instructions, stdout, log,
                    updated_session >>

\* Lines 44-68 when create_session raises: main has no try, the exception
\* leaves main and asyncio.run.
CreateSessionRaised ==
    /\ pc = "create_session"
    /\ stdout' = Append(stdout, "--- INITIALIZING SESSION: " \o initial_state_repr \o " ---\n")
    /\ createCalls' = createCalls + 1
    /\ exc' = "create_session"
    /\ pc' = "failed"
    /\ UNCHANGED << environ, GOOGLE_API_KEY, session, getCalls, submitted, inFlight,
                    completed, received, snapshots, instructions, log, updated_session >>

CreateSession == CreateSessionReturned \/ CreateSessionRaised

\* Variant: the next prompt is submitted without waiting for the open stream
\* to end.
SubmitPromptEarly ==
    /\ pc \in { "next_prompt", "streaming" }
    /\ Len(submitted) < Len(prompts)
    /\ LET prompt == prompts[Len(submitted) + 1]
       IN  /\ stdout' = Append(stdout, "\nUSER: " \o prompt \o "\n")
           /\ submitted' = Append(submitted, prompt)
    /\ inFlight' = inFlight + 1
    /\ received' = << >>
    /\ snapshots' = Append(snapshots, session[1])
    /\ instructions' = Append(instructions, ResolveInstruction(root_agent, session[1]))
    /\ pc' = "streaming"
    /\ UNCHANGED << environ, GOOGLE_API_KEY, exc, session, createCalls, getCalls,
                    completed, log, updated_session >>

\* Lines 76-83: the loop takes the next prompt, prints it and opens the
\* runner's stream for it; the runner resolves the agent's instruction on the
\* session state of that moment.
SubmitPrompt ==
    /\ pc = "next_prompt"
    /\ Len(submitted) < Len(prompts)
    /\ LET prompt == prompts[Len(submitted) + 1]
       IN  /\ stdout' = Append(stdout, "\nUSER: " \o prompt \o "\n")
           /\ submitted' = Append(submitted, prompt)
    /\ inFlight' = inFlight + 1
    /\ received' = << >>
    /\ snapshots' = Append(snapshots, session[1])
    /\ instructions' = Append(instructions, ResolveInstruction(root_agent, session[1]))
    /\ pc' = "streaming"
    /\ UNCHANGED << environ, GOOGLE_API_KEY, exc, session, createCalls, getCalls,
                    completed, log, updated_session >>

\* Variant: the part loop stops at the first part without text.
RECURSIVE PrintPartsUntilNoText(_)
PrintPartsUntilNoText(parts) ==
    IF parts = << >> \/ ~Truthy(Head(parts).text)
    THEN << >>
    ELSE << "MENTOR: " \o Head(parts).text[1] >> \o PrintPartsUntilNoText(Tail(parts))

\* Lines 85-87: the prints of a part list, in part order.
RECURSIVE PrintParts(_)
PrintParts(parts) ==
    IF parts = << >>
    THEN << >>
    ELSE LET part == Head(parts)
         IN  (IF Truthy(part.text) THEN << "MENTOR: " \o part.text[1] >> ELSE << >>)
             \o PrintParts(Tail(parts))

\* Lines 84-87: the prints of one event.
PrintEvent(event) ==
    IF /\ event.content # None
       /\ event.content[1].parts # None
       /\ event.content[1].parts[1] # << >>
    THEN PrintParts(event.content[1].parts[1])
    ELSE << >>

\* Lines 79-87: the stream yields its next event and the loop body prints it.
RecvEvent ==
    /\ pc = "streaming"
    /\ Len(received) < MaxEvents
    /\ \E event \in Events :
          /\ received' = Append(received, event)
          /\ stdout' = stdout \o PrintEvent(event)
    /\ UNCHANGED << pc, environ, GOOGLE_API_KEY, exc, session, createCalls, getCalls,
                    submitted, inFlight, completed, snapshots, instructions, log,
                    updated_session >>

\* The session state after a turn: the turn's other changes, then the final
\* text under the agent's output key when the runner stores one.
AfterTurn(state, delta, advice) ==
    IF advice = None
    THEN ApplyDelta(state, delta)
    ELSE Put(ApplyDelta(state, delta), root_agent.output_key, advice[1])

\* Lines 79-88: the stream is exhausted; the turn's writes are in the
\* session; the loop prints the newline and goes to the next prompt.
StreamEnd ==
    /\ pc = "streaming"
    /\ \E delta \in StateDeltas, advice \in Advices :
          session' = Some(AfterTurn(session[1], delta, advice))
    /\ inFlight' = inFlight - 1
    /\ completed' = completed + 1
    /\ received' = << >>
    /\ stdout' = Append(stdout, "\n")
    /\ pc' = "next_prompt"
    /\ UNCHANGED << environ, GOOGLE_API_KEY, exc, createCalls, getCalls, submitted,
                    snapshots, instructions, log, updated_session >>

\* Variant: a failed turn is abandoned and the loop goes on.
StreamRaisedSkipped ==
    /\ pc = "streaming"
    /\ exc' = "run_async"
    /\ pc' = "next_prompt"
    /\ UNCHANGED << environ, GOOGLE_API_KEY, driverVars >>

\* Lines 79-83: the stream raises instead of yielding; nothing catches it.
StreamRaised ==
    /\ pc = "streaming"
    /\ exc' = "run_async"
    /\ pc' = "failed"
    /\ UNCHANGED << environ, GOOGLE_API_KEY, driverVars >>

\* Lines 76, 90-92: the prompt list is exhausted; the session is fetched
\* again and the store answers with the session or with None.
GetSession ==
    /\ pc = "next_prompt"
    /\ Len(submitted) = Len(prompts)
    /\ getCalls' = getCalls + 1
    /\ updated_session' \in { None, session }
    /\ pc' = "verify"
    /\ UNCHANGED << environ, GOOGLE_API_KEY, exc, session, createCalls, submitted,
                    inFlight, completed, received, snapshots, instructions, stdout, log >>

\* Variant: only a missing value counts as empty.
VerifyLogNoneOnly(upd) ==
    IF upd # None
    THEN LET saved_advice == GetOpt(upd[1], "last_mentor_advice")
         IN  IF saved_advice # None
             THEN << LogRecord("INFO", "State 'last_mentor_advice': "
                                       \o Slice(saved_advice[1], PreviewLen) \o "...") >>
             ELSE << LogRecord("WARNING", "State 'last_mentor_advice' is empty!") >>
    ELSE << >>

\* Lines 94-99: what the verification logs for main's updated_session.
VerifyLog(upd) ==
    IF upd # None
    THEN LET saved_advice == GetOpt(upd[1], "last_mentor_advice")
         IN  IF Truthy(saved_advice)
             THEN << LogRecord("INFO", "State 'last_mentor_advice': "
                                       \o Slice(saved_advice[1], PreviewLen) \o "...") >>
             ELSE << LogRecord("WARNING", "State 'last_mentor_advice' is empty!") >>
    ELSE << >>

\* Lines 94-99, then main returns.
Verify ==
    /\ pc = "verify"
    /\ log' = log \o VerifyLog(updated_session)
    /\ pc' = "done"
    /\ UNCHANGED << environ, GOOGLE_API_KEY, exc, session, createCalls, getCalls,
                    submitted, inFlight, completed, received, snapshots, instructions,
                    stdout, updated_session >>

Next ==
    \/ LoadDotenv
    \/ CheckKey
    \/ CreateSession
    \/ SubmitPrompt
    \/ RecvEvent
    \/ StreamEnd
    \/ StreamRaised
    \/ GetSession
    \/ Verify

Spec == Init /\ [][Next]_vars


(***************************************************************************)
(* The persona formatter on its own: one call on an arbitrary session      *)
(* state.                                                                  *)
(***************************************************************************)
\* Values a state key may hold.
StrValues == { "", "Intern", "General Chat", "Junior Developer", "O'Neil {x}" }

\* Every dict over the three keys of the convention.
FormatStates ==
    UNION { [ks -> StrValues] : ks \in SUBSET { "user:role", "current_topic" } }
    \cup UNION { { Put(d, "last_mentor_advice", "Use the heap.") :
                     d \in [ks -> StrValues] } :
                 ks \in SUBSET { "user:role", "current_topic" } }

InitFormat ==
    /\ pc = "format"
    /\ environ = Some("AIza-key")
    /\ GOOGLE_API_KEY = Some("AIza-key")
    /\ exc = ""
    /\ session \in { Some(d) : d \in FormatStates }
    /\ createCalls = 1
    /\ getCalls = 0
    /\ submitted = << >>
    /\ inFlight = 0
    /\ completed = 0
    /\ received = << >>
    /\ snapshots = << >>
    /\ instructions = << >>
    /\ stdout = << >>
    /\ log = << >>
    /\ updated_session = None

\* Lines 15-34: one call of the provider on the session state.
FormatCall ==
    /\ pc = "format"
    /\ snapshots' = Append(snapshots, session[1])
    /\ instructions' = Append(instructions, dynamic_persona_provider(session[1]))
    /\ pc' = "formatted"
    /\ UNCHANGED << environ, GOOGLE_API_KEY, exc, session, createCalls, getCalls,
                    submitted, inFlight, completed, received, stdout, log,
                    updated_session >>

NextFormat == FormatCall

SpecFormat == InitFormat /\ [][NextFormat]_vars

(***************************************************************************)
(* Properties                                                              *)
(***************************************************************************)
StartsWith(s, prefix) ==
    Len(s) >= Len(prefix) /\ SubSeq(s, 1, Len(prefix)) = prefix

EndsWith(s, suffix) ==
    Len(s) >= Len(suffix) /\ SubSeq(s, Len(s) - Len(suffix) + 1, Len(s)) = suffix

Contains(s, sub) ==
    \E i \in 0..(Len(s) - Len(sub)) : SubSeq(s, i + 1, i + Len(sub)) = sub

\* C1: the provider never fails, and its text is the fixed template with the
\* role of state["user:role"], or "Intern" when the key is missing, and the
\* topic of state["current_topic"], or "General Chat" when it is missing;
\* the text holds both values verbatim and nothing else that varies.
C1_FormatUsesStateOrDefaults ==
    /\ pc = "format" => ENABLED FormatCall
    /\ pc = "formatted" =>
          LET state == session[1]
              text == instructions[1]
              role == IF "user:role" \in DOMAIN state THEN state["user:role"] ELSE "Intern"
              topic == IF "current_topic" \in DOMAIN state
                       THEN state["current_topic"] ELSE "General Chat"
          IN  /\ StartsWith(text, "You are a strict Senior Tech Lead. You are currently "
                                  \o "mentoring a user with the rank of '" \o role \o "'. ")
              /\ Contains(text, "'. The current discussion topic is locked to: '" \o topic
                                \o "'. If the user asks about anything else, politely refuse")
              /\ EndsWith(text, " and steer back to " \o topic
                                \o ". Keep answers concise and technical.")
              /\ Len(text) = 247 + Len(role) + 2 * Len(topic)

\* C1 witness: a state without "user:role" and with a topic was formatted
\* with the default role and the state's topic.
C1_Witness ==
    /\ pc = "formatted"
    /\ "user:role" \notin DOMAIN session[1]
    /\ "current_topic" \in DOMAIN session[1]
    /\ session[1]["current_topic"] = "O'Neil {x}"
    /\ Contains(instructions[1], "the rank of 'Intern'")
    /\ Contains(instructions[1], "locked to: 'O'Neil {x}'")

\* C3: the instruction of every turn is the template filled from the session
\* state as it was when that turn started.
C3_InstructionFromLiveState ==
    /\ Len(instructions) = Len(submitted)
    /\ Len(snapshots) = Len(submitted)
    /\ \A k \in 1..Len(instructions) :
          LET role == Get(snapshots[k], "user:role", "Intern")
              topic == Get(snapshots[k], "current_topic", "General Chat")
          IN  /\ StartsWith(instructions[k],
                    "You are a strict Senior Tech Lead. You are currently mentoring a user "
                    \o "with the rank of '" \o role
                    \o "'. The current discussion topic is locked to: '" \o topic \o "'. If")
              /\ EndsWith(instructions[k],
                    " steer back to " \o topic \o ". Keep answers concise and technical.")
    /\ pc = "streaming" => snapshots[Len(snapshots)] = session[1]

\* C3 witness: the first turn changed the topic and the second turn's
\* instruction names the new topic.
C3_Witness ==
    /\ Len(instructions) = 2
    /\ snapshots[1] = initial_state
    /\ Get(snapshots[2], "current_topic", "General Chat") = "Concurrency"
    /\ Contains(instructions[1], "locked to: 'Memory Management'")
    /\ Contains(instructions[2], "locked to: 'Concurrency'")
    /\ ~Contains(instructions[2], "Memory Management")

\* C4: the session is created once and before any prompt is submitted; the
\* prompts are submitted in list order; at most one stream is open, and a
\* prompt is submitted only when every earlier stream was exhausted; the
\* session is fetched again only after the last stream was exhausted.
C4_SequentialTurns ==
    /\ createCalls <= 1
    /\ submitted = SubSeq(prompts, 1, Len(submitted))
    /\ submitted # << >> => createCalls = 1 /\ session # None
    /\ inFlight <= 1
    /\ Len(submitted) - completed = inFlight
    /\ getCalls <= 1
    /\ getCalls = 1 => completed = Len(prompts) /\ inFlight = 0 /\ submitted = prompts

\* C4 witness: both prompts were submitted and completed, then the session
\* was fetched.
C4_Witness ==
    /\ getCalls = 1
    /\ createCalls = 1
    /\ submitted = prompts
    /\ completed = 2

\* C5: when the session fetched after the last turn has no output key or an
\* empty value under it, a warning is logged; otherwise one INFO record with
\* the first PreviewLen characters of the value; either way main ends
\* without an exception.
C5_VerificationLogs ==
    /\ pc \in { "verify", "done" } => exc = ""
    /\ (pc = "done" /\ updated_session # None) =>
          LET state == updated_session[1]
              head == "State 'last_mentor_advice': "
          IN  /\ Len(log) = 2
              /\ IF "last_mentor_advice" \notin DOMAIN state
                    \/ state["last_mentor_advice"] = ""
                 THEN log[2] = LogRecord("WARNING", "State 'last_mentor_advice' is empty!")
                 ELSE LET advice == state["last_mentor_advice"]
                          msg == log[2].msg
                          preview == SubSeq(msg, Len(head) + 1, Len(msg) - 3)
                      IN  /\ log[2].level = "INFO"
                          /\ StartsWith(msg, head)
                          /\ EndsWith(msg, "...")
                          /\ StartsWith(advice, preview)
                          /\ Len(preview) = (IF Len(advice) < 50 THEN Len(advice) ELSE 50)

\* C5 witness: the runner never stored the output key, the warning was
\* logged and main returned.
C5_Witness ==
    /\ pc = "done"
    /\ exc = ""
    /\ updated_session # None
    /\ "last_mentor_advice" \notin DOMAIN updated_session[1]
    /\ log[Len(log)].level = "WARNING"

\* C6: with GOOGLE_API_KEY absent or empty in the environment that config.py
\* reads, the process ends in the ValueError of config.py and nothing of
\* main has happened: no session, no prompt, no fetch, no output.
C6_MissingKeyFailsAtStartup ==
    (pc \notin { "load_dotenv", "getenv" } /\ environ \in { None, Some("") }) =>
        /\ pc = "config_error"
        /\ exc = "ValueError"
        /\ createCalls = 0
        /\ session = None
        /\ submitted = << >>
        /\ getCalls = 0
        /\ stdout = << >>
        /\ log = << >>

\* C6 witness: the key is the empty string and the process ended in the
\* configuration error.
C6_Witness ==
    /\ pc = "config_error"
    /\ environ = Some("")
    /\ exc = "ValueError"

\* C7: when create_session raises, the process has failed with that
\* exception after a single creation call, no prompt was submitted and the
\* session was not fetched.
C7_CreateErrorIsFatal ==
    exc = "create_session" =>
        /\ pc = "failed"
        /\ createCalls = 1
        /\ session = None
        /\ submitted = << >>
        /\ inFlight = 0
        /\ getCalls = 0
        /\ updated_session = None

\* C7 witness: create_session raised.
C7_Witness ==
    /\ exc = "create_session"
    /\ pc = "failed"
    /\ createCalls = 1

\* Text of the non-empty fragments of an event, in fragment order.
FragmentTexts(event) ==
    IF event.content = None THEN << >>
    ELSE IF event.content[1].parts = None THEN << >>
    ELSE LET parts == event.content[1].parts[1]
             hasText(part) == part.text # None /\ part.text # Some("")
             kept == SelectSeq(parts, hasText)
         IN  [i \in 1..Len(kept) |-> kept[i].text[1]]

\* Text of the non-empty fragments of a sequence of events, in event order.
RECURSIVE StreamTexts(_)
StreamTexts(events) ==
    IF events = << >> THEN << >>
    ELSE FragmentTexts(Head(events)) \o StreamTexts(Tail(events))

\* Index of the last print of a prompt.
LastPromptPrint ==
    CHOOSE i \in 1..Len(stdout) :
        /\ StartsWith(stdout[i], "\nUSER: ")
        /\ \A j \in (i + 1)..Len(stdout) : ~StartsWith(stdout[j], "\nUSER: ")

\* C8: while a turn's stream is being consumed, what has been printed since
\* the prompt is exactly the non-empty fragment texts of the events received
\* so far, in event order and fragment order.
C8_PrintsFollowTheStream ==
    pc = "streaming" =>
        LET texts == StreamTexts(received)
            prints == SubSeq(stdout, LastPromptPrint + 1, Len(stdout))
        IN  /\ stdout[LastPromptPrint] = "\nUSER: " \o submitted[Len(submitted)] \o "\n"
            /\ Len(prints) = Len(texts)
            /\ \A i \in 1..Len(texts) : prints[i] = "MENTOR: " \o texts[i]

\* C8 witness: an event with two texts among parts without text, then an
\* event with one text; the three texts were printed in that order.
C8_Witness ==
    /\ pc = "streaming"
    /\ Len(received) = 2
    /\ received[1] = Event(Content(Some(<< Part(Some("Use ")), Part(None), Part(Some("")),
                                           Part(Some("heap.")) >>)))
    /\ received[2] = Event(Content(Some(<< Part(Some("Stack")) >>)))
    /\ SubSeq(stdout, Len(stdout) - 2, Len(stdout))
         = << "MENTOR: Use ", "MENTOR: heap.", "MENTOR: Stack" >>

\* C9: when a stream raises, the process has failed with that exception, the
\* failing prompt is the last one submitted, the session was not fetched and
\* nothing was logged by the verification.
C9_TurnErrorIsFatal ==
    exc = "run_async" =>
        /\ pc = "failed"
        /\ Len(submitted) = completed + 1
        /\ getCalls = 0
        /\ updated_session = None
        /\ Len(log) = 1

\* C9 witness: the first stream raised after an event; the second prompt was
\* never submitted.
C9_Witness ==
    /\ exc = "run_async"
    /\ pc = "failed"
    /\ submitted = << prompts[1] >>
    /\ Len(received) = 1

\* C10: when main has returned, the verification has logged exactly one
\* record, and it is the warning when the store answered None.
C10_ExactlyOneVerificationRecord ==
    pc = "done" =>
        /\ Len(log) = 2
        /\ updated_session = None => log[2].level = "WARNING"

====
